---- MODULE Spec2Model ----
(***************************************************************************)
(* Deconvolution2DFunction of chainer/functions/connection/                *)
(* deconvolution_2d.py as a state machine.  One function-node instance     *)
(* (`self`) receives forward and backward calls; tensors are modelled by   *)
(* their shape, dtype and device, which is all that output-size            *)
(* inference, input validation, strategy dispatch and the cover_all flag   *)
(* depend on.                                                              *)
(***************************************************************************)
EXTENDS Integers, Sequences, FiniteSets, TLC

\* ------------------------------------------------------------------ bounds
MaxIn == 2              \* spatial sizes of x are 1 .. MaxIn
MaxK == 2               \* kernels are k x k for k in 1 .. MaxK
MaxStride == 2          \* stride is 1 or MaxStride
MaxPad == 1             \* pad is 0 or MaxPad
MaxDilate == 2          \* dilate is 1, MaxDilate or (1, MaxDilate)
MaxGroup == 2           \* group is 1 or MaxGroup
MaxOut == 2             \* an explicit outsize is (MaxOut, MaxOut)
Batch == 2              \* N, the batch size of every x
OutChanPerGroup == 3    \* C_og = W.shape[1]
InChanPerGroup == 1     \* x.shape[1] = group * InChanPerGroup

\* ------------------------------------------------------- program constants
CUDNN_DILATION_VERSION == 6000
CUDNN_GROUP_VERSION == 7000

\* Python's None and a present value.
None == <<>>
Some(v) == <<v>>
Val(o) == o[1]

Dtypes == {"float32", "float64"}
Devices == {"cpu", "gpu"}
CudnnVersions == {CUDNN_DILATION_VERSION - 1, CUDNN_DILATION_VERSION,
                  CUDNN_GROUP_VERSION}

VARIABLES
    self,        \* the instance: sy sx ph pw dy dx group outh outw cover_all
    outsize,     \* the outsize argument the instance was constructed with
    env,         \* device and dtypes of the caller's arrays, cuDNN configuration
    inputs,      \* x and W of the most recent forward call
    result,      \* how the most recent forward call ended
    strategy,    \* the forward implementation that call used
    y,           \* shape of the output that call returned
    indexes,     \* input indexes the most recent backward call was asked for
    gx,          \* shape of the input gradient that backward call returned
    gxCoverAll,  \* cover_all passed to convolution_2d for gx
    gWCoverAll,  \* cover_all read by Convolution2DGradW for gW
    resolves,    \* _set_cover_all calls since the most recent forward call began
    call,        \* "none", "first" or "later": position of that forward call
    computed     \* axes whose outsize that forward call computed: <<h, w>>

vars == <<self, outsize, env, inputs, result, strategy, y, indexes, gx,
          gxCoverAll, gWCoverAll, resolves, call, computed>>

\* ------------------------------------------------------- chainer.utils.conv
\* Output size of a plain convolution.
get_conv_outsize(size, k, s, p, cover_all, d) ==
    LET dk == k + (k - 1) * (d - 1)
    IN  IF cover_all
        THEN (size + p * 2 - dk + s - 1) \div s + 1
        ELSE (size + p * 2 - dk) \div s + 1

\* Output size of a transposed convolution (cover_all = False).
get_deconv_outsize(size, k, s, p, d) ==
    LET dk == (k - 1) * d + 1
    IN  s * (size - 1) + dk - 2 * p

\* Shape of col2im's result: gcol is (n, c, kh, kw, in_h, in_w), the image h x w.
col2im(gcol, h, w) == <<gcol[1], gcol[2], h, w>>

\* Shape of convolution_2d(x, W, cover_all): W is (out_c, in_c / group, kh, kw).
convolution_2d(xs, Ws, sy, sx, ph, pw, cover_all, dy, dx) ==
    <<xs[1], Ws[1],
      get_conv_outsize(xs[3], Ws[3], sy, ph, cover_all, dy),
      get_conv_outsize(xs[4], Ws[4], sx, pw, cover_all, dx)>>

\* ----------------------------------------------------------------- helpers
\* A scalar argument is <<v>>, a pair <<a, b>> (hasattr(x, '__getitem__')).
_pair(x) == IF Len(x) = 2 THEN x ELSE <<x[1], x[1]>>

\* Deconvolution2DFunction.__init__
__init__(stride, pad, osize, group, dilate) ==
    [sy |-> _pair(stride)[1], sx |-> _pair(stride)[2],
     ph |-> _pair(pad)[1], pw |-> _pair(pad)[2],
     outh |-> IF osize = None THEN None ELSE Some(osize[1]),
     outw |-> IF osize = None THEN None ELSE Some(osize[2]),
     dy |-> _pair(dilate)[1], dx |-> _pair(dilate)[2],
     group |-> group,
     cover_all |-> None]

\* check_type_forward with the upper bounds made strict.
check_type_forward_strict_upper(s, x, W) ==
    /\ x.shape[2] = W.shape[1]
    /\ \/ s.outh = None
       \/ /\ get_conv_outsize(Val(s.outh), W.shape[3], s.sy, s.ph, FALSE, s.dy)
                <= x.shape[3]
          /\ x.shape[3]
                < get_conv_outsize(Val(s.outh), W.shape[3], s.sy, s.ph, TRUE, s.dy)
    /\ \/ s.outw = None
       \/ /\ get_conv_outsize(Val(s.outw), W.shape[4], s.sx, s.pw, FALSE, s.dx)
                <= x.shape[4]
          /\ x.shape[4]
                < get_conv_outsize(Val(s.outw), W.shape[4], s.sx, s.pw, TRUE, s.dx)

\* check_type_forward with two inputs (x, W): TRUE iff every expectation holds.
check_type_forward(s, x, W) ==
    /\ x.dtype \in Dtypes
    /\ W.dtype \in Dtypes
    /\ Len(x.shape) = 4
    /\ Len(W.shape) = 4
    /\ x.shape[2] = W.shape[1]
    /\ \/ s.outh = None
       \/ LET lower_bound == get_conv_outsize(Val(s.outh), W.shape[3], s.sy, s.ph,
                                              FALSE, s.dy)
              upper_bound == get_conv_outsize(Val(s.outh), W.shape[3], s.sy, s.ph,
                                              TRUE, s.dy)
          IN  lower_bound <= x.shape[3] /\ x.shape[3] <= upper_bound
    /\ \/ s.outw = None
       \/ LET lower_bound == get_conv_outsize(Val(s.outw), W.shape[4], s.sx, s.pw,
                                              FALSE, s.dx)
              upper_bound == get_conv_outsize(Val(s.outw), W.shape[4], s.sx, s.pw,
                                              TRUE, s.dx)
          IN  lower_bound <= x.shape[4] /\ x.shape[4] <= upper_bound

\* _calc_out_size without the `is None` guards: every call recomputes both axes.
_calc_out_size_recompute(s, x, W) ==
    LET h == get_deconv_outsize(x.shape[3], W.shape[3], s.sy, s.ph, s.dy)
        w == get_deconv_outsize(x.shape[4], W.shape[4], s.sx, s.pw, s.dx)
    IN  [self |-> IF h <= 0 THEN [s EXCEPT !.outh = Some(h)]
                  ELSE [s EXCEPT !.outh = Some(h), !.outw = Some(w)],
         raised |-> h <= 0 \/ w <= 0,
         computed |-> <<TRUE, h > 0>>]

\* _calc_out_size: the instance afterwards, and whether RuntimeError was raised.
\* Each axis is assigned before its sign is tested.
_calc_out_size(s, x, W) ==
    LET kh == W.shape[3]
        kw == W.shape[4]
        in_h == x.shape[3]
        in_w == x.shape[4]
        s1 == IF s.outh = None
              THEN [s EXCEPT !.outh = Some(get_deconv_outsize(in_h, kh, s.sy, s.ph, s.dy))]
              ELSE s
        raisedH == s.outh = None /\ Val(s1.outh) <= 0
        s2 == IF ~raisedH /\ s1.outw = None
              THEN [s1 EXCEPT !.outw = Some(get_deconv_outsize(in_w, kw, s.sx, s.pw, s.dx))]
              ELSE s1
        raisedW == ~raisedH /\ s1.outw = None /\ Val(s2.outw) <= 0
    IN  [self |-> s2, raised |-> raisedH \/ raisedW,
         computed |-> <<s.outh = None, ~raisedH /\ s1.outw = None>>]

\* _set_cover_all with `and` for `or`.
_set_cover_all_and(s, x, W) ==
    [s EXCEPT !.cover_all = Some(
        /\ x.shape[3] # get_conv_outsize(Val(s.outh), W.shape[3], s.sy, s.ph, FALSE, s.dy)
        /\ x.shape[4] # get_conv_outsize(Val(s.outw), W.shape[4], s.sx, s.pw, FALSE, s.dx))]

\* _set_cover_all without d=self.dy, d=self.dx (get_conv_outsize's default d=1).
_set_cover_all_no_dilate(s, x, W) ==
    [s EXCEPT !.cover_all = Some(
        \/ x.shape[3] # get_conv_outsize(Val(s.outh), W.shape[3], s.sy, s.ph, FALSE, 1)
        \/ x.shape[4] # get_conv_outsize(Val(s.outw), W.shape[4], s.sx, s.pw, FALSE, 1))]

\* _set_cover_all
_set_cover_all(s, x, W) ==
    LET in_h == x.shape[3]
        in_w == x.shape[4]
        kh == W.shape[3]
        kw == W.shape[4]
    IN  [s EXCEPT !.cover_all = Some(
            \/ in_h # get_conv_outsize(Val(s.outh), kh, s.sy, s.ph, FALSE, s.dy)
            \/ in_w # get_conv_outsize(Val(s.outw), kw, s.sx, s.pw, FALSE, s.dx))]

\* _forward_cpu_core / _forward_gpu_core: tensordot(W, x, (0, 1)) is
\* (C_og, kh, kw, N, in_h, in_w); rollaxis(gcol, 3) moves N to the front.
_forward_core(s, xs, Ws) ==
    LET gcol0 == <<Ws[2], Ws[3], Ws[4], xs[1], xs[3], xs[4]>>
        gcol == <<gcol0[4], gcol0[1], gcol0[2], gcol0[3], gcol0[5], gcol0[6]>>
    IN  col2im(gcol, Val(s.outh), Val(s.outw))

\* Channels of concatenate(_ys, axis=1) over the first g groups.
RECURSIVE ConcatChannels(_, _, _, _)
ConcatChannels(s, xg, Wg, g) ==
    IF g = 0 THEN 0
    ELSE ConcatChannels(s, xg, Wg, g - 1) + _forward_core(s, xg, Wg)[2]

\* _forward_grouped_convolution returning the last group's _y instead of the
\* concatenation.
_forward_grouped_convolution_last_group(s, xs, Ws) ==
    _forward_core(s, <<xs[1], xs[2] \div s.group, xs[3], xs[4]>>,
                  <<xs[2] \div s.group, Ws[2], Ws[3], Ws[4]>>)

\* _forward_grouped_convolution
_forward_grouped_convolution(s, xs, Ws) ==
    LET G == s.group
        N == xs[1]
        xCg == xs[2] \div G
        yCg == Ws[2]
        xg == <<N, xCg, xs[3], xs[4]>>
        Wg == <<xCg, yCg, Ws[3], Ws[4]>>
        one == _forward_core(s, xg, Wg)
    IN  <<one[1], ConcatChannels(s, xg, Wg, G), one[3], one[4]>>

\* _forward_cudnn: y = empty((n, yCg * group, outh, outw))
_forward_cudnn(s, xs, Ws) ==
    <<xs[1], Ws[2] * s.group, Val(s.outh), Val(s.outw)>>

\* use_cudnn without `not self.cover_all`.
use_cudnn_ignoring_cover_all(s, x, W, e) ==
    /\ e.use_cudnn
    /\ x.dtype = W.dtype
    /\ \/ s.dy = 1 /\ s.dx = 1
       \/ e.cudnn_version >= CUDNN_DILATION_VERSION /\ ~e.cudnn_deterministic
    /\ (s.group <= 1 \/ e.cudnn_version >= CUDNN_GROUP_VERSION)

\* use_cudnn of forward_gpu
use_cudnn(s, x, W, e) ==
    /\ e.use_cudnn
    /\ ~Val(s.cover_all)
    /\ x.dtype = W.dtype
    /\ \/ s.dy = 1 /\ s.dx = 1
       \/ e.cudnn_version >= CUDNN_DILATION_VERSION /\ ~e.cudnn_deterministic
    /\ (s.group <= 1 \/ e.cudnn_version >= CUDNN_GROUP_VERSION)

\* forward_cpu
forward_cpu(s, x, W) ==
    LET c == _calc_out_size(s, x, W)
        s1 == c.self
    IN  IF c.raised
        THEN [self |-> s1, raised |-> TRUE, computed |-> c.computed, resolves |-> 0,
              strategy |-> "none", y |-> None]
        ELSE IF s1.group > 1
        THEN [self |-> s1, raised |-> FALSE, computed |-> c.computed, resolves |-> 0,
              strategy |-> "grouped",
              y |-> Some(_forward_grouped_convolution(s1, x.shape, W.shape))]
        ELSE [self |-> s1, raised |-> FALSE, computed |-> c.computed, resolves |-> 0,
              strategy |-> "direct",
              y |-> Some(_forward_core(s1, x.shape, W.shape))]

\* forward_gpu
forward_gpu(s, x, W, e) ==
    LET c == _calc_out_size(s, x, W)
        s1 == c.self
        s2 == _set_cover_all(s1, x, W)
    IN  IF c.raised
        THEN [self |-> s1, raised |-> TRUE, computed |-> c.computed, resolves |-> 0,
              strategy |-> "none", y |-> None]
        ELSE IF use_cudnn(s2, x, W, e)
        THEN [self |-> s2, raised |-> FALSE, computed |-> c.computed, resolves |-> 1,
              strategy |-> "cudnn",
              y |-> Some(_forward_cudnn(s2, x.shape, W.shape))]
        ELSE IF s2.group > 1
        THEN [self |-> s2, raised |-> FALSE, computed |-> c.computed, resolves |-> 1,
              strategy |-> "grouped",
              y |-> Some(_forward_grouped_convolution(s2, x.shape, W.shape))]
        ELSE [self |-> s2, raised |-> FALSE, computed |-> c.computed, resolves |-> 1,
              strategy |-> "direct",
              y |-> Some(_forward_core(s2, x.shape, W.shape))]

\* backward: the instance afterwards, gx, and the flag each gradient used.
backward(s, x, W, gy, idx) ==
    LET s1 == IF 0 \in idx /\ s.cover_all = None THEN _set_cover_all(s, x, W) ELSE s
        n1 == IF 0 \in idx /\ s.cover_all = None THEN 1 ELSE 0
        gxs == IF 0 \in idx
               THEN Some(convolution_2d(gy, W.shape, s1.sy, s1.sx, s1.ph, s1.pw,
                                        Val(s1.cover_all), s1.dy, s1.dx))
               ELSE None
        s2 == IF 1 \in idx /\ s1.cover_all = None THEN _set_cover_all(s1, x, W) ELSE s1
        n2 == IF 1 \in idx /\ s1.cover_all = None THEN 1 ELSE 0
    IN  [self |-> s2, gx |-> gxs,
         gxCoverAll |-> IF 0 \in idx THEN s1.cover_all ELSE None,
         gWCoverAll |-> IF 1 \in idx THEN s2.cover_all ELSE None,
         resolves |-> n1 + n2]

\* ------------------------------------------------------------ state machine
Scalars(S) == {<<v>> : v \in S}

OutsizeArgs == {None, <<MaxOut, MaxOut>>}

\* Kernel shapes (kh, kw).
Kernels == {<<k, k>> : k \in 1 .. MaxK}

\* The arrays a caller on environment e can pass to an instance with `group`.
XArrays(e, group) ==
    {[shape |-> <<Batch, group * InChanPerGroup, h, w>>, dtype |-> e.xdtype,
      device |-> e.device] : h \in 1 .. MaxIn, w \in 1 .. MaxIn}
WArrays(e, group) ==
    {[shape |-> <<group * InChanPerGroup, OutChanPerGroup, k[1], k[2]>>,
      dtype |-> e.Wdtype, device |-> e.device] : k \in Kernels}

InitWith(Envs, Strides, Pads, Dilates, Groups, Outsizes) ==
    /\ env \in Envs
    /\ outsize \in Outsizes
    /\ \E stride \in Strides, pad \in Pads, dilate \in Dilates, group \in Groups :
            self = __init__(stride, pad, outsize, group, dilate)
    /\ inputs = None
    /\ result = "none"
    /\ strategy = "none"
    /\ y = None
    /\ indexes = {}
    /\ gx = None
    /\ gxCoverAll = None
    /\ gWCoverAll = None
    /\ resolves = 0
    /\ call = "none"
    /\ computed = <<FALSE, FALSE>>

\* cuDNN usable and unrestricted; x and W of one dtype.
PlainEnvs ==
    [device : Devices, xdtype : {"float32"}, Wdtype : {"float32"},
     use_cudnn : {TRUE}, cudnn_version : {CUDNN_GROUP_VERSION},
     cudnn_deterministic : {FALSE}]

\* Every cuDNN configuration and dtype pair on the GPU; forward_cpu reads none.
AllEnvs ==
    [device : {"gpu"}, xdtype : {"float32"}, Wdtype : Dtypes,
     use_cudnn : BOOLEAN, cudnn_version : CudnnVersions,
     cudnn_deterministic : BOOLEAN]
    \cup {e \in PlainEnvs : e.device = "cpu"}

Init ==
    InitWith(PlainEnvs, Scalars({1, MaxStride}), Scalars({0, MaxPad}),
             Scalars({1, MaxDilate}), {1, MaxGroup}, OutsizeArgs)

InitDispatch ==
    InitWith(AllEnvs, Scalars({MaxStride}), Scalars({0}),
             Scalars({1, MaxDilate}) \cup {<<1, MaxDilate>>}, {1, MaxGroup},
             {<<MaxOut, MaxOut>>})

\* FunctionNode.apply((x, W)): check_type_forward, then forward_cpu or forward_gpu.
\* An output with a negative stored size cannot be allocated as such: the kernel
\* either fails or returns an empty image.
Forward(x, W) ==
    LET r == IF x.device = "gpu" THEN forward_gpu(self, x, W, env)
             ELSE forward_cpu(self, x, W)
        nextCall == IF call = "none" THEN "first" ELSE "later"
    IN  /\ inputs' = Some([x |-> x, W |-> W])
        /\ call' = nextCall
        /\ indexes' = {}
        /\ gx' = None
        /\ gxCoverAll' = None
        /\ gWCoverAll' = None
        /\ UNCHANGED <<outsize, env>>
        /\ IF ~check_type_forward(self, x, W)
           THEN /\ result' = "type_error"
                /\ strategy' = "none"
                /\ y' = None
                /\ resolves' = 0
                /\ computed' = <<FALSE, FALSE>>
                /\ UNCHANGED self
           ELSE /\ self' = r.self
                /\ computed' = r.computed
                /\ resolves' = r.resolves
                /\ IF r.raised
                   THEN /\ result' = "non_positive"
                        /\ strategy' = "none"
                        /\ y' = None
                   ELSE IF Val(r.y)[3] < 0 \/ Val(r.y)[4] < 0
                   THEN /\ strategy' = r.strategy
                        /\ \/ result' = "alloc_error" /\ y' = None
                           \/ /\ result' = "ok"
                              /\ y' = Some(<<Val(r.y)[1], Val(r.y)[2],
                                            IF Val(r.y)[3] < 0 THEN 0 ELSE Val(r.y)[3],
                                            IF Val(r.y)[4] < 0 THEN 0 ELSE Val(r.y)[4]>>)
                   ELSE /\ result' = "ok"
                        /\ strategy' = r.strategy
                        /\ y' = r.y

\* FunctionNode.backward(indexes, (gy,)) after a forward call that returned y.
Backward(idx) ==
    /\ result = "ok"
    /\ LET b == backward(self, Val(inputs).x, Val(inputs).W, Val(y), idx)
       IN  /\ self' = b.self
           /\ gx' = b.gx
           /\ gxCoverAll' = b.gxCoverAll
           /\ gWCoverAll' = b.gWCoverAll
           /\ resolves' = resolves + b.resolves
    /\ indexes' = idx
    /\ UNCHANGED <<outsize, env, inputs, result, strategy, y, call, computed>>

Next ==
    \/ \E x \in XArrays(env, self.group), W \in WArrays(env, self.group) : Forward(x, W)
    \/ \E idx \in (SUBSET {0, 1}) \ {{}} : Backward(idx)

Spec == Init /\ [][Next]_vars

SpecDispatch == InitDispatch /\ [][Next]_vars

\* ------------------------------------------------------------------ claims
\* x and W of the most recent forward call, and its configuration.
X == Val(inputs).x
Wt == Val(inputs).W
InH == X.shape[3]
InW == X.shape[4]
KH == Wt.shape[3]
KW == Wt.shape[4]
Called == result # "none"

\* deconvOutSize as the specification writes it.
deconvOutSize(n, k, s, p, d) == s * (n - 1) + d * (k - 1) + 1 - 2 * p

\* Plain-convolution output size, written out.
convOutSize(n, k, s, p, d, cover_all) ==
    IF cover_all THEN (n + 2 * p - (d * (k - 1) + 1) + s - 1) \div s + 1
    ELSE (n + 2 * p - (d * (k - 1) + 1)) \div s + 1

\* C1: the first forward call of an instance created with no explicit outsize
\* returns an output of shape (N, C_og * group, sy*(H_in-1) + dy*(kH-1) + 1 - 2*ph,
\* sx*(W_in-1) + dx*(kW-1) + 1 - 2*pw) on the direct, grouped and accelerated
\* paths; the documented example (N=10, C_in=1, C_og=3, 5x10 input, 10x10 kernel,
\* stride 5, pad 5) gives (10, 3, 20, 45).
C1_FirstForwardShape ==
    /\ (call = "first" /\ outsize = None /\ result = "ok") =>
          y = Some(<<X.shape[1], Wt.shape[2] * self.group,
                     self.sy * (InH - 1) + self.dy * (KH - 1) + 1 - 2 * self.ph,
                     self.sx * (InW - 1) + self.dx * (KW - 1) + 1 - 2 * self.pw>>)
    /\ forward_cpu(__init__(<<5>>, <<5>>, None, 1, <<1>>),
                   [shape |-> <<10, 1, 5, 10>>, dtype |-> "float32", device |-> "cpu"],
                   [shape |-> <<1, 3, 10, 10>>, dtype |-> "float32", device |-> "cpu"]).y
          = Some(<<10, 3, 20, 45>>)

C1_Witness ==
    /\ call = "first" /\ outsize = None /\ result = "ok"
    /\ strategy = "grouped" /\ self.group = MaxGroup
    /\ Val(y)[3] # Val(y)[4]

\* C2: with an explicit outsize (outH, outW) a forward call is rejected with a
\* shape error, before any computation, iff on some axis x's size is outside
\* [convOutSize(out, cover_all=false), convOutSize(out, cover_all=true)]; every
\* accepted call returns an output of spatial shape exactly (outH, outW).
C2_InRange ==
    /\ convOutSize(outsize[1], KH, self.sy, self.ph, self.dy, FALSE) <= InH
    /\ InH <= convOutSize(outsize[1], KH, self.sy, self.ph, self.dy, TRUE)
    /\ convOutSize(outsize[2], KW, self.sx, self.pw, self.dx, FALSE) <= InW
    /\ InW <= convOutSize(outsize[2], KW, self.sx, self.pw, self.dx, TRUE)

C2_ExplicitOutsizeValidation ==
    (outsize # None /\ Called) =>
        /\ (result = "type_error") <=> ~C2_InRange
        /\ result = "type_error" => (y = None /\ strategy = "none")
        /\ C2_InRange => /\ result = "ok"
                         /\ Val(y)[3] = outsize[1]
                         /\ Val(y)[4] = outsize[2]

C2_Witness ==
    /\ outsize # None /\ result = "ok"
    /\ InH > convOutSize(outsize[1], KH, self.sy, self.ph, self.dy, FALSE)
    /\ Val(y)[3] = outsize[1] /\ Val(y)[4] = outsize[2]

\* C3, first half: on an instance created with no explicit outsize, every
\* validated forward call whose x and W give a computed output size <= 0 on
\* either axis fails with the non-positive-output-size error and returns nothing.
C3_NonPositiveCallFails ==
    (outsize = None /\ Called /\ result # "type_error") =>
        ((\/ deconvOutSize(InH, KH, self.sy, self.ph, self.dy) <= 0
          \/ deconvOutSize(InW, KW, self.sx, self.pw, self.dx) <= 0)
            => (result = "non_positive" /\ y = None))

\* C3: in any sequence of forward calls on an instance created with no explicit
\* outsize, a call whose computed size is <= 0 fails, so that every output
\* forward returns has positive height and width.
C3_ReturnedOutputPositive ==
    (outsize = None /\ y # None) => (Val(y)[3] > 0 /\ Val(y)[4] > 0)

\* C4: the accelerated strategy is chosen iff the call runs on the accelerated
\* device and library use is permitted, cover_all is false, x and W have one
\* dtype, dilation is (1,1) or (version >= 6000 and deterministic mode is off),
\* and group <= 1 or version >= 7000; otherwise the grouped splitter is chosen
\* iff group > 1, and the direct kernel otherwise.  The accelerated strategy is
\* never chosen on the CPU path or when cover_all is true.
C4_StrategySelection ==
    result = "ok" =>
        /\ strategy =
              IF /\ X.device = "gpu"
                 /\ env.use_cudnn
                 /\ self.cover_all = Some(FALSE)
                 /\ X.dtype = Wt.dtype
                 /\ \/ (self.dy = 1 /\ self.dx = 1)
                    \/ (env.cudnn_version >= 6000 /\ ~env.cudnn_deterministic)
                 /\ (self.group <= 1 \/ env.cudnn_version >= 7000)
              THEN "cudnn"
              ELSE IF self.group > 1 THEN "grouped" ELSE "direct"
        /\ strategy = "cudnn" => (X.device = "gpu" /\ self.cover_all # Some(TRUE))

C4_Witness ==
    /\ result = "ok" /\ strategy = "cudnn"
    /\ self.group > 1 /\ self.dy > 1
    /\ env.cudnn_version = 7000

\* C5 (as claimed): the resolved flag is true iff H_in # deconvOutSize(outH, kH,
\* sy, ph, dy) or W_in # deconvOutSize(outW, kW, sx, pw, dx).
C5_ResolverUsesDeconvOutSize ==
    resolves >= 1 =>
        self.cover_all = Some(
            \/ InH # deconvOutSize(Val(self.outh), KH, self.sy, self.ph, self.dy)
            \/ InW # deconvOutSize(Val(self.outw), KW, self.sx, self.pw, self.dx))

\* C5 (amended): the resolved flag is true iff H_in differs from the
\* plain-convolution output size of outH with cover_all=false,
\* floor((outH + 2*ph - (dy*(kH-1)+1)) / sy) + 1, or the width analogue holds.
C5_ResolverUsesConvOutSize ==
    resolves >= 1 =>
        self.cover_all = Some(
            \/ InH # convOutSize(Val(self.outh), KH, self.sy, self.ph, self.dy, FALSE)
            \/ InW # convOutSize(Val(self.outw), KW, self.sx, self.pw, self.dx, FALSE))

C5_Witness ==
    /\ resolves >= 1
    /\ self.cover_all = Some(TRUE)
    /\ InH = convOutSize(Val(self.outh), KH, self.sy, self.ph, self.dy, FALSE)
    /\ InW # convOutSize(Val(self.outw), KW, self.sx, self.pw, self.dx, FALSE)

\* C6: the input gradient returned by backward has the spatial shape
\* (H_in, W_in) of x.
C6_GradXShape ==
    gx # None => (Val(gx)[3] = InH /\ Val(gx)[4] = InW)

\* C7: between the start of a forward call and the end of the backward call
\* that follows it the flag is resolved at most once; when backward computes
\* gradX or gradW it is resolved exactly once, each gradient finds it set, and
\* both use the same value.
C7_ResolvedOncePerPair ==
    /\ resolves <= 1
    /\ indexes # {} =>
          /\ resolves = 1
          /\ 0 \in indexes => gxCoverAll # None
          /\ 1 \in indexes => gWCoverAll # None
          /\ indexes = {0, 1} => gxCoverAll = gWCoverAll

\* C8: once outh (outw) is set, by construction or by a forward call, no
\* forward or backward call changes it; stride, pad, dilation and group never
\* change.
C8_OutsizeWrittenOnce ==
    [][/\ self.outh # None => self'.outh = self.outh
       /\ self.outw # None => self'.outw = self.outw
       /\ <<self'.sy, self'.sx, self'.ph, self'.pw, self'.dy, self'.dx, self'.group>>
            = <<self.sy, self.sx, self.ph, self.pw, self.dy, self.dx, self.group>>]_vars

C8_Witness ==
    /\ call = "later" /\ result = "ok" /\ outsize = None
    /\ self.outh # None
    /\ Val(self.outh) # deconvOutSize(InH, KH, self.sy, self.ph, self.dy)

\* C9: a forward call that fails with the non-positive-output-size error leaves
\* outh and outw as they were before the call.
C9_FailedForwardKeepsOutsize ==
    [][result' = "non_positive" =>
          (self'.outh = self.outh /\ self'.outw = self.outw)]_vars

\* C10: when no outsize was given and a forward call computed a positive size
\* on both axes from x and W, the flag resolved for that x and W is false.
C10_ComputedOutsizeNeverCoverAll ==
    (outsize = None /\ result = "ok" /\ computed = <<TRUE, TRUE>> /\ resolves >= 1)
        => self.cover_all = Some(FALSE)

C10_Witness ==
    /\ outsize = None /\ result = "ok" /\ computed = <<TRUE, TRUE>> /\ resolves >= 1
    /\ self.sy = MaxStride /\ self.ph = MaxPad /\ self.dy = MaxDilate
    /\ KH = MaxK /\ InH # InW
    /\ self.cover_all = Some(FALSE)

====
